---- MODULE Spec2Model ----
(***************************************************************************)
(* A model of pyphen-rs: the pattern dictionary (HyphDict), the parser of  *)
(* nonstandard hyphenation alternatives (AlternativeParser), and the       *)
(* hyphenator (Pyphen) with its iterator.                                  *)
(*                                                                         *)
(* Strings are sequences of one-character strings.  Words range over ASCII *)
(* letters, for which the byte length (str::len), the byte offsets used for*)
(* slicing and the char count (chars()) coincide.                          *)
(*                                                                         *)
(* usize arithmetic: a subtraction that goes below zero panics in a build  *)
(* with overflow checks (debug) and wraps modulo 2^64 in a build without   *)
(* them (release).  The build is the variable overflow_checks.  TLC's      *)
(* integers are 32 bits wide, so the modulus is UsizeModulus, a power of   *)
(* two far above every length of the model, as 2^64 is in the program.     *)
(***************************************************************************)
EXTENDS Integers, Sequences, FiniteSets, TLC

\* ------------------------------------------------------------------ bounds
MaxWordLen == 3
MaxWidth == 3
DefaultMargin == 2
UsizeModulus == 1073741824

\* Option<T>: None is the empty sequence, Some(x) is <<x>>
None == <<>>
Some(x) == <<x>>

Max(a, b) == IF a >= b THEN a ELSE b
Min(a, b) == IF a <= b THEN a ELSE b

\* ------------------------------------------------------------------ text
LowerChar(c) ==
    CASE c = "A" -> "a" [] c = "B" -> "b" [] c = "C" -> "c" [] OTHER -> c
UpperChar(c) ==
    CASE c = "a" -> "A" [] c = "b" -> "B" [] c = "c" -> "C" [] OTHER -> c
to_lowercase(s) == [i \in 1..Len(s) |-> LowerChar(s[i])]
to_uppercase(s) == [i \in 1..Len(s) |-> UpperChar(s[i])]

\* &s[a..b] with 0-based byte offsets, b exclusive
Slice(s, a, b) == SubSeq(s, a + 1, b)

Digits == {"0", "1", "2", "3", "4", "5", "6", "7", "8", "9"}
DigitValue(c) ==
    CASE c = "0" -> 0 [] c = "1" -> 1 [] c = "2" -> 2 [] c = "3" -> 3
      [] c = "4" -> 4 [] c = "5" -> 5 [] c = "6" -> 6 [] c = "7" -> 7
      [] c = "8" -> 8 [] c = "9" -> 9
HexDigits == Digits \cup {"a", "b", "c", "d", "e", "f"}
HexValue(c) ==
    CASE c = "a" -> 10 [] c = "b" -> 11 [] c = "c" -> 12 [] c = "d" -> 13
      [] c = "e" -> 14 [] c = "f" -> 15 [] OTHER -> DigitValue(c)
\* `num as char` for the codes that occur in the modelled dictionaries
CharOfCode(n) ==
    CASE n = 97 -> "a" [] n = 98 -> "b" [] n = 99 -> "c" [] n = 46 -> "."
      [] n = 47 -> "/" [] n = 49 -> "1" [] n = 50 -> "2" [] OTHER -> "?"

\* PARSE_HEX.replace_all: every ^^hh (two lower-case hex digits), leftmost
\* first, becomes the character with that code
RECURSIVE PARSE_HEX_replace_all(_)
PARSE_HEX_replace_all(s) ==
    IF s = <<>> THEN <<>>
    ELSE IF /\ Len(s) >= 4
            /\ s[1] = "^" /\ s[2] = "^"
            /\ s[3] \in HexDigits /\ s[4] \in HexDigits
         THEN <<CharOfCode(16 * HexValue(s[3]) + HexValue(s[4]))>>
                  \o PARSE_HEX_replace_all(SubSeq(s, 5, Len(s)))
         ELSE <<s[1]>> \o PARSE_HEX_replace_all(Tail(s))

\* str::find(c): 0-based offset of the first c, or Len(s) when there is none
RECURSIVE FindChar(_, _)
FindChar(s, c) ==
    IF s = <<>> \/ s[1] = c THEN 0 ELSE 1 + FindChar(Tail(s), c)

\* str::split(sep) collected: the fields between the separators
RECURSIVE Split(_, _)
Split(s, sep) ==
    LET k == FindChar(s, sep)
    IN  IF k = Len(s) THEN <<s>>
        ELSE <<SubSeq(s, 1, k)>> \o Split(SubSeq(s, k + 2, Len(s)), sep)

RECURSIVE DecimalValue(_)
DecimalValue(s) ==
    IF s = <<>> THEN 0
    ELSE 10 * DecimalValue(SubSeq(s, 1, Len(s) - 1)) + DigitValue(s[Len(s)])

AllDigits(s) == s # <<>> /\ \A i \in 1..Len(s) : s[i] \in Digits

\* str::parse::<isize>(): an optional sign and at least one digit
ParseIsize(s) ==
    IF s # <<>> /\ s[1] \in {"+", "-"}
    THEN IF AllDigits(Tail(s))
         THEN Some(IF s[1] = "-" THEN 0 - DecimalValue(Tail(s))
                   ELSE DecimalValue(Tail(s)))
         ELSE None
    ELSE IF AllDigits(s) THEN Some(DecimalValue(s)) ELSE None

\* str::parse::<usize>(): an optional + and at least one digit
ParseUsize(s) ==
    IF s # <<>> /\ s[1] = "+"
    THEN IF AllDigits(Tail(s)) THEN Some(DecimalValue(Tail(s))) ELSE None
    ELSE IF AllDigits(s) THEN Some(DecimalValue(s)) ELSE None

\* ------------------------------------------------------------------ DataInt
DataInt_new(value, data) == [value |-> value, data |-> data]
DataInt_with_ref(value, reference) == [value |-> value, data |-> reference.data]

\* ------------------------------------------------------------------ AlternativeParser
\* the struct literal of AlternativeParser::new and the `ap.index += 1` that
\* follows it: Some(parser), or None when one of the two unwraps panics
NewParser(pattern, change, index, cut) ==
    IF index = None \/ cut = None THEN None
    ELSE Some([change |-> change,
               index  |-> index[1]
                            + (IF pattern # <<>> /\ pattern[1] = "." THEN 1 ELSE 0),
               cut    |-> cut[1]])

\* the fields of the alternative, once split
ParserOfFields(pattern, alt) ==
    IF Len(alt) < 3 THEN None
    ELSE NewParser(pattern, alt[1], ParseIsize(alt[2]), ParseUsize(alt[3]))

\* AlternativeParser::new(pattern, alternative): Some(parser), or None when an
\* unwrap or an index panics
AlternativeParser_new(pattern, alternative) ==
    ParserOfFields(pattern, Split(alternative, ","))

\* a variant of call that counts down on odd digits only
AlternativeParser_call_on_odd(self, value) ==
    [self |-> IF value.value % 2 # 0 THEN [self EXCEPT !.index = self.index - 1]
              ELSE self,
     out  |-> IF value.value % 2 # 0
              THEN DataInt_new(value.value, <<self.change, self.index - 1, self.cut>>)
              ELSE DataInt_new(value.value, None)]

\* AlternativeParser::call(value): the parser after the call, and the value
\* returned
AlternativeParser_call(self, value) ==
    [self |-> [self EXCEPT !.index = self.index - 1],
     out  |-> IF value.value % 2 # 0
              THEN DataInt_new(value.value, <<self.change, self.index - 1, self.cut>>)
              ELSE DataInt_new(value.value, None)]

\* ------------------------------------------------------------------ HyphDict::new
\* PARSE.captures_iter: the successive matches of (\d?)(\D?).  Every character
\* is a digit or a non-digit, so a match is empty only at the end of the text,
\* and the regex iterator does not report an empty match that immediately
\* follows a match: the empty match is reported for the empty text alone.
RECURSIVE PARSE_captures_iter(_, _)
PARSE_captures_iter(s, first) ==
    IF s = <<>>
    THEN IF first THEN <<[i |-> "", string |-> ""]>> ELSE <<>>
    ELSE IF s[1] \in Digits
    THEN IF Len(s) >= 2 /\ s[2] \notin Digits
         THEN <<[i |-> s[1], string |-> s[2]]>>
                  \o PARSE_captures_iter(SubSeq(s, 3, Len(s)), FALSE)
         ELSE <<[i |-> s[1], string |-> ""]>>
                  \o PARSE_captures_iter(Tail(s), FALSE)
    ELSE <<[i |-> "", string |-> s[1]]>> \o PARSE_captures_iter(Tail(s), FALSE)

\* the digit of a capture: `.filter(|m| !m.is_empty()).unwrap_or("0")`, parsed
CaptureDigit(cap) == IF cap.i = "" THEN 0 ELSE DigitValue(cap.i)

\* the values the closure yields over the captures of a line with an
\* alternative: each digit goes through factory.call
RECURSIVE FactoryValues(_, _)
FactoryValues(caps, factory) ==
    IF caps = <<>> THEN <<>>
    ELSE <<AlternativeParser_call(factory, DataInt_new(CaptureDigit(caps[1]), None)).out>>
             \o FactoryValues(Tail(caps),
                    AlternativeParser_call(factory,
                        DataInt_new(CaptureDigit(caps[1]), None)).self)

\* the values of the captures: through the factory when the line has an
\* alternative, else bare
CaptureValues(caps, factory) ==
    IF factory # None THEN FactoryValues(caps, factory[1])
    ELSE [k \in 1..Len(caps) |-> DataInt_new(CaptureDigit(caps[k]), None)]

\* tags.concat()
RECURSIVE ConcatTags(_)
ConcatTags(caps) ==
    IF caps = <<>> THEN <<>>
    ELSE (IF caps[1].string = "" THEN <<>> ELSE <<caps[1].string>>)
             \o ConcatTags(Tail(caps))

\* values.iter().position(|v| v.value != 0), 0-based
RECURSIVE Position(_)
Position(values) ==
    IF values = <<>> \/ values[1].value # 0 THEN 0 ELSE 1 + Position(Tail(values))

\* values.iter().rposition(|v| v.value != 0), 0-based
RECURSIVE RPosition(_)
RPosition(values) ==
    IF values = <<>> \/ values[Len(values)].value # 0 THEN Len(values) - 1
    ELSE RPosition(SubSeq(values, 1, Len(values) - 1))

\* HashMap::insert: a later entry with the same key replaces the earlier one
Insert(map, key, entry) == (key :> entry) @@ map

IsComment(pattern) == pattern = <<>> \/ pattern[1] = "%" \/ pattern[1] = "#"

\* a variant of lines 91-104 that stores the values as read, zeros at both
\* ends included
StoreValues_unchopped(patterns, key, values) ==
    IF \A k \in 1..Len(values) : values[k].value = 0
    THEN patterns
    ELSE Insert(patterns, key, [offset |-> 0, values |-> values])

\* lines 91-104: skip a pattern of zeros only; else chop the zeros from both
\* ends and insert under the key
StoreValues(patterns, key, values) ==
    IF \A k \in 1..Len(values) : values[k].value = 0
    THEN patterns
    ELSE Insert(patterns, key,
                [offset |-> Position(values),
                 values |-> Slice(values, Position(values), RPosition(values) + 1)])

\* lines 70-104 for a base pattern and its factory
StoreCaptures(patterns, caps, factory) ==
    StoreValues(patterns, ConcatTags(caps), CaptureValues(caps, factory))

\* lines 61-104: [ok, patterns]; ok is FALSE when AlternativeParser::new panics
ReadAlternative(patterns, pattern, factory) ==
    IF factory = None THEN [ok |-> FALSE, patterns |-> patterns]
    ELSE [ok |-> TRUE,
          patterns |-> StoreCaptures(patterns, PARSE_captures_iter(pattern, TRUE),
                                     factory)]

\* the pattern with ^^hh replaced: split at the first '/', if it has one
ReadHexed(patterns, hexed) ==
    IF \E k \in 1..Len(hexed) : hexed[k] = "/"
    THEN ReadAlternative(patterns,
             SubSeq(hexed, 1, FindChar(hexed, "/")),
             AlternativeParser_new(SubSeq(hexed, 1, FindChar(hexed, "/")),
                                   SubSeq(hexed, FindChar(hexed, "/") + 2, Len(hexed))))
    ELSE [ok |-> TRUE,
          patterns |-> StoreCaptures(patterns, PARSE_captures_iter(hexed, TRUE), None)]

\* one pass of the loop over the lines: [ok, patterns]
ReadPattern(patterns, line) ==
    IF IsComment(line) THEN [ok |-> TRUE, patterns |-> patterns]
    ELSE ReadHexed(patterns, PARSE_HEX_replace_all(line))

\* the loop over the lines, from the patterns read so far (r): it ends at the
\* first panic
RECURSIVE ReadPatterns(_, _)
ReadPatterns(r, lines) ==
    IF lines = <<>> \/ ~r.ok THEN r
    ELSE ReadPatterns(ReadPattern(r.patterns, lines[1]), Tail(lines))

\* iter().max().unwrap_or(0)
SetMax(S) ==
    IF S = {} THEN 0 ELSE CHOOSE y \in S : \A z \in S : y >= z

EmptyMap == [k \in {} |-> None]

\* lines 107-113: the dictionary of the patterns read
NewDict(r) ==
    IF ~r.ok THEN None
    ELSE Some([patterns |-> r.patterns,
               cache    |-> EmptyMap,
               maxlen   |-> SetMax({Len(k) : k \in DOMAIN r.patterns})])

\* HyphDict::new(filename): Some(dictionary), or None when it panics (the file
\* cannot be opened, or a line's alternative does not parse)
HyphDict_new(filename) ==
    IF ~filename.exists THEN None
    ELSE NewDict(ReadPatterns([ok |-> TRUE, patterns |-> EmptyMap], filename.lines))

\* ------------------------------------------------------------------ usize
\* a - b on usize: [ok, value]; below zero it panics (ok FALSE) with overflow
\* checks and wraps without them
usize_sub(a, b, checks) ==
    IF a >= b THEN [ok |-> TRUE, value |-> a - b]
    ELSE IF checks THEN [ok |-> FALSE, value |-> 0]
    ELSE [ok |-> TRUE, value |-> a - b + UsizeModulus]

\* `x as isize` and `x as usize`: the same bits read as the other type
as_isize(x) == IF 2 * x >= UsizeModulus THEN x - UsizeModulus ELSE x
as_usize(x) == IF x < 0 THEN x + UsizeModulus ELSE x

\* ------------------------------------------------------------------ HyphDict::positions
\* a variant of the inner loop with `y.value >= x.value`: a slot takes y on a
\* tie too
Overlay_on_tie(references, start, values) ==
    [k \in 1..Len(references) |->
        IF /\ k - 1 >= start
           /\ k - 1 < start + Len(values)
           /\ values[k - start].value >= references[k].value
        THEN values[k - start]
        ELSE references[k]]

\* the inner `for (x, y) in references[start..end].iter_mut().zip(values)`:
\* a slot takes y when y.value > x.value
Overlay(references, start, values) ==
    [k \in 1..Len(references) |->
        IF /\ k - 1 >= start
           /\ k - 1 < start + Len(values)
           /\ values[k - start].value > references[k].value
        THEN values[k - start]
        ELSE references[k]]

\* the body of the inner loop on a hit: [ok, references]; ok is FALSE when
\* references[start..end] is out of range
OverlayPattern(references, i, pattern) ==
    IF i + pattern.offset + Len(pattern.values) > Len(references)
    THEN [ok |-> FALSE, references |-> references]
    ELSE [ok |-> TRUE,
          references |-> Overlay(references, i + pattern.offset, pattern.values)]

\* the body of the inner loop: the lookup of pointed_word[i..j]
Lookup(self, pointed_word, references, i, j) ==
    IF Slice(pointed_word, i, j) \in DOMAIN self.patterns
    THEN OverlayPattern(references, i, self.patterns[Slice(pointed_word, i, j)])
    ELSE [ok |-> TRUE, references |-> references]

\* the two nested loops, from (i, j) on, r being [ok, references] so far
RECURSIVE ScanFrom(_, _, _, _, _)
ScanFrom(self, pointed_word, r, i, j) ==
    IF ~r.ok \/ i >= Len(pointed_word) - 1 THEN r
    ELSE IF j >= Min(i + self.maxlen, Len(pointed_word) + 1)
    THEN ScanFrom(self, pointed_word, r, i + 1, i + 2)
    ELSE ScanFrom(self, pointed_word,
                  Lookup(self, pointed_word, r.references, i, j), i, j + 1)

\* references.into_iter().enumerate().filter(odd).map(i - 1).collect(), from
\* slot i on, r being [ok, points] so far; ok is FALSE when i - 1 panics
RECURSIVE CollectPoints(_, _, _, _)
CollectPoints(references, i, r, checks) ==
    IF ~r.ok \/ i >= Len(references) THEN r
    ELSE IF references[i + 1].value % 2 = 0
    THEN CollectPoints(references, i + 1, r, checks)
    ELSE CollectPoints(references, i + 1,
             [ok     |-> usize_sub(i, 1, checks).ok,
              points |-> Append(r.points,
                             DataInt_with_ref(usize_sub(i, 1, checks).value,
                                              references[i + 1]))],
             checks)

\* lines 163-168 after the loops (scanned is [ok, references])
PointsOf(scanned, checks) ==
    IF ~scanned.ok THEN [ok |-> FALSE, points |-> <<>>]
    ELSE CollectPoints(scanned.references, 0, [ok |-> TRUE, points |-> <<>>], checks)

\* lines 145-161 for the pointed word
ScanPointed(self, pointed_word) ==
    ScanFrom(self, pointed_word,
             [ok |-> TRUE,
              references |-> [k \in 1..(Len(pointed_word) + 1) |-> DataInt_new(0, None)]],
             0, 1)

\* the uncached part of HyphDict::positions for a lower-cased word: [ok, points]
Scan(self, word, checks) ==
    PointsOf(ScanPointed(self, <<".">> \o word \o <<".">>), checks)

\* a variant of lines 169-173 that moves the points into the cache before the
\* caller's copy is taken: the caller gets them, the cache keeps an emptied Vec
CachePoints_moved(self, word, r) ==
    IF ~r.ok THEN [ok |-> FALSE, points |-> <<>>, self |-> self]
    ELSE [ok |-> TRUE, points |-> r.points,
          self |-> [self EXCEPT !.cache = Insert(self.cache, word, <<>>)]]

\* lines 169-173: the points go into the cache and to the caller
CachePoints(self, word, r) ==
    IF ~r.ok THEN [ok |-> FALSE, points |-> <<>>, self |-> self]
    ELSE [ok |-> TRUE, points |-> r.points,
          self |-> [self EXCEPT !.cache = Insert(self.cache, word, r.points)]]

\* HyphDict::positions for the lower-cased word
PositionsLower(self, word, checks) ==
    IF word \in DOMAIN self.cache
    THEN [ok |-> TRUE, points |-> self.cache[word], self |-> self]
    ELSE CachePoints(self, word, Scan(self, word, checks))

\* a variant of HyphDict::positions without line 140: the word is looked up
\* and cached in the case it comes in
HyphDict_positions_cased(self, word, checks) ==
    PositionsLower(self, word, checks)

\* HyphDict::positions(word): [ok, points, self]; self is the dictionary with
\* its cache after the call
HyphDict_positions(self, word, checks) ==
    PositionsLower(self, to_lowercase(word), checks)

\* ------------------------------------------------------------------ Pyphen
\* a variant of mod.rs lines 39-44 that filters the shared Vec in place
\* (retain) instead of collecting a new one: the cache entries that are this
\* Vec keep only the points of this Pyphen
FilterPoints_in_place(self, hd, right, r) ==
    IF ~r.ok THEN [ok |-> FALSE, value |-> <<>>, points |-> <<>>, hd |-> hd]
    ELSE [ok |-> TRUE,
          value |-> SelectSeq(r.points,
                        LAMBDA i : i.value >= self.left /\ i.value <= right),
          points |-> r.points,
          hd |-> [r.self EXCEPT !.cache =
                     [w \in DOMAIN r.self.cache |->
                         IF r.self.cache[w] = r.points
                         THEN SelectSeq(r.points,
                                  LAMBDA i : i.value >= self.left /\ i.value <= right)
                         ELSE r.self.cache[w]]]]

\* mod.rs lines 39-44: the points of the dictionary (r is [ok, points, self]),
\* filtered to left <= value <= right
FilterPoints(self, hd, right, r) ==
    IF ~r.ok THEN [ok |-> FALSE, value |-> <<>>, points |-> <<>>, hd |-> hd]
    ELSE [ok |-> TRUE,
          value |-> SelectSeq(r.points,
                        LAMBDA i : i.value >= self.left /\ i.value <= right),
          points |-> r.points,
          hd |-> r.self]

\* Pyphen::positions after line 38 (right is [ok, value])
PositionsRight(self, hd, word, right, checks) ==
    IF ~right.ok THEN [ok |-> FALSE, value |-> <<>>, points |-> <<>>, hd |-> hd]
    ELSE FilterPoints(self, hd, right.value, HyphDict_positions(hd, word, checks))

\* Pyphen::positions(word): [ok, value, points, hd]; points is what the
\* dictionary returned, hd the dictionary after the call
Pyphen_positions(self, hd, word, checks) ==
    PositionsRight(self, hd, word, usize_sub(Len(word), self.right, checks), checks)

\* the Iter over the positions p ([ok, value, hd]); next() takes them from
\* the back (Rev)
IterOver(p, word) ==
    [ok   |-> p.ok,
     iter |-> [iter |-> p.value, word |-> word,
               is_upper |-> (word = to_uppercase(word))],
     hd   |-> p.hd]

\* Pyphen::iterate(word): [ok, iter, hd]
Pyphen_iterate(self, hd, word, checks) ==
    IterOver(Pyphen_positions(self, hd, word, checks), word)

\* `index += position.value as isize`, then `len - index as usize` when the
\* sum is negative: [ok, value]
ResolveIndex(index, position, len, checks) ==
    IF index + as_isize(position.value) < 0
    THEN usize_sub(len, as_usize(index + as_isize(position.value)), checks)
    ELSE [ok |-> TRUE, value |-> index + as_isize(position.value)]

\* the change of a rule, in the case of the word
ChangeOf(position, is_upper) ==
    IF is_upper THEN to_uppercase(position.data[1]) ELSE position.data[1]

\* iter.rs lines 42-54 for the split change x and the resolved index
RuleItem(word, x, index, cut) ==
    IF Len(x) < 2 \/ ~index.ok THEN [ok |-> FALSE, item |-> None]
    ELSE IF index.value > Len(word) \/ index.value + cut > Len(word)
    THEN [ok |-> FALSE, item |-> None]
    ELSE [ok |-> TRUE,
          item |-> Some(<<Slice(word, 0, index.value) \o x[1],
                          x[2] \o Slice(word, index.value + cut, Len(word))>>)]

\* iter.rs lines 33-60 for one position: [ok, item]; ok is FALSE when an
\* unwrap, a subtraction or a slice panics
ItemAt(word, is_upper, position, checks) ==
    IF position.data # None
    THEN RuleItem(word, Split(ChangeOf(position, is_upper), "="),
                  ResolveIndex(position.data[2], position, Len(word), checks),
                  position.data[3])
    ELSE IF position.value > Len(word) THEN [ok |-> FALSE, item |-> None]
    ELSE [ok |-> TRUE,
          item |-> Some(<<Slice(word, 0, position.value),
                          Slice(word, position.value, Len(word))>>)]

\* Iter::next(): [ok, item, iter]; item is None at the end
Iter_next(self, checks) ==
    IF self.iter = <<>> THEN [ok |-> TRUE, item |-> None, iter |-> self]
    ELSE [ok   |-> ItemAt(self.word, self.is_upper, self.iter[Len(self.iter)], checks).ok,
          item |-> ItemAt(self.word, self.is_upper, self.iter[Len(self.iter)], checks).item,
          iter |-> [self EXCEPT !.iter = SubSeq(self.iter, 1, Len(self.iter) - 1)]]

\* the loop of wrap_with, n being what next() has just returned: [ok, value]
RECURSIVE WrapLoop(_, _, _, _)
WrapLoop(n, width, hyphen, checks) ==
    IF ~n.ok THEN [ok |-> FALSE, value |-> None]
    ELSE IF n.item = None THEN [ok |-> TRUE, value |-> None]
    ELSE IF Len(n.item[1][1]) <= width
    THEN [ok |-> TRUE, value |-> Some(<<n.item[1][1] \o hyphen, n.item[1][2]>>)]
    ELSE WrapLoop(Iter_next(n.iter, checks), width, hyphen, checks)

\* wrap_with lines 75-82 over the iterator it ([ok, iter, hd])
WrapOver(it, hd, width, hyphen, checks) ==
    IF ~it.ok THEN [ok |-> FALSE, value |-> None, hd |-> hd]
    ELSE [ok    |-> WrapLoop(Iter_next(it.iter, checks), width, hyphen, checks).ok,
          value |-> WrapLoop(Iter_next(it.iter, checks), width, hyphen, checks).value,
          hd    |-> it.hd]

\* wrap_with after line 74 (width is [ok, value])
WrapWidth(self, hd, word, width, hyphen, checks) ==
    IF ~width.ok THEN [ok |-> FALSE, value |-> None, hd |-> hd]
    ELSE WrapOver(Pyphen_iterate(self, hd, word, checks), hd, width.value,
                  hyphen, checks)

\* Pyphen::wrap_with(word, width, hyphen): [ok, value, hd]
Pyphen_wrap_with(self, hd, word, width, hyphen, checks) ==
    WrapWidth(self, hd, word, usize_sub(width, Len(hyphen), checks), hyphen, checks)

\* str::replace(c, by)
RECURSIVE Replace(_, _, _)
Replace(s, c, by) ==
    IF s = <<>> THEN <<>>
    ELSE (IF s[1] = c THEN by ELSE <<s[1]>>) \o Replace(Tail(s), c, by)

\* Vec::splice(a..b, by): [ok, value]; the range must lie in the vector
Splice(list, a, b, by) ==
    IF a > b \/ b > Len(list) THEN [ok |-> FALSE, value |-> list]
    ELSE [ok |-> TRUE,
          value |-> Slice(list, 0, a) \o by \o Slice(list, b, Len(list))]

\* mod.rs line 132 for the resolved index
SpliceRule(word_list, index, cut, by) ==
    IF ~index.ok THEN [ok |-> FALSE, value |-> word_list]
    ELSE Splice(word_list, index.value, index.value + cut, by)

\* the body of the loop of inserted_with for one position: [ok, value]
InsertAt(word_list, position, is_upper, hyphen, checks) ==
    IF position.data # None
    THEN SpliceRule(word_list,
             ResolveIndex(position.data[2], position, Len(word_list), checks),
             position.data[3],
             Replace(ChangeOf(position, is_upper), "=", hyphen))
    ELSE Splice(word_list, position.value, position.value, hyphen)

\* a variant of the loop of inserted_with without `.rev()`: the positions are
\* taken first to last
RECURSIVE InsertLoop_forward(_, _, _, _, _)
InsertLoop_forward(r, positions, is_upper, hyphen, checks) ==
    IF ~r.ok \/ positions = <<>> THEN r
    ELSE InsertLoop_forward(InsertAt(r.value, positions[1], is_upper,
                                     hyphen, checks),
                            Tail(positions), is_upper, hyphen, checks)

\* the loop of inserted_with over the positions, last first, r being
\* [ok, value] so far
RECURSIVE InsertLoop(_, _, _, _, _)
InsertLoop(r, positions, is_upper, hyphen, checks) ==
    IF ~r.ok \/ positions = <<>> THEN r
    ELSE InsertLoop(InsertAt(r.value, positions[Len(positions)], is_upper,
                             hyphen, checks),
                    SubSeq(positions, 1, Len(positions) - 1),
                    is_upper, hyphen, checks)

\* inserted_with lines 112-138 over the positions p ([ok, value, hd])
InsertOver(p, hd, word, hyphen, checks) ==
    IF ~p.ok THEN [ok |-> FALSE, value |-> word, hd |-> hd]
    ELSE [ok    |-> InsertLoop([ok |-> TRUE, value |-> word], p.value,
                               word = to_uppercase(word), hyphen, checks).ok,
          value |-> InsertLoop([ok |-> TRUE, value |-> word], p.value,
                               word = to_uppercase(word), hyphen, checks).value,
          hd    |-> p.hd]

\* Pyphen::inserted_with(word, hyphen): [ok, value, hd]
Pyphen_inserted_with(self, hd, word, hyphen, checks) ==
    InsertOver(Pyphen_positions(self, hd, word, checks), hd, word, hyphen, checks)

\* ------------------------------------------------------------------ inputs
\* the dictionary files of the model: [exists, lines]
PlainFile ==
    [exists |-> TRUE,
     lines  |-> << <<"%", " ", "n", "l">>,
                   <<>>,
                   <<"1", "^", "^", "6", "1", "1">>,
                   <<".", "a", "2", "a", ".">>,
                   <<"a", ".", "1">>,
                   <<"b", "0">>,
                   <<"a", "a", "a", "a", "1", "a">> >>]
AlternativeFile ==
    [exists |-> TRUE,
     lines  |-> << <<"#", " ", "h", "u">>,
                   <<"a", "1", "a", "/", "b", "=", "c", ",", "1", ",", "1">>,
                   <<".", "a", "1", "a", "/", "c", "=", "b", ",", "1", ",", "1">>,
                   <<".", "a", "3", "a", ".", "/", "b", "=", "c", ",", "-", "1", ",", "1">>,
                   <<"a", "a", "a", "a", "2", "a">> >>]
EdgeFile ==
    [exists |-> TRUE,
     lines  |-> << <<"1", ".", "a">>,
                   <<"a", "1">>,
                   <<"a", "a", "2", "a">> >>]
MissingFile == [exists |-> FALSE, lines |-> <<>>]
BadIndexFile ==
    [exists |-> TRUE,
     lines  |-> << <<"1", "a", "1">>,
                   <<"a", "1", "a", "/", "b", "=", "c", ",", "x", ",", "1">> >>]
BadCutFile ==
    [exists |-> TRUE,
     lines  |-> << <<"1", "a", "1">>,
                   <<"a", "1", "a", "/", "b", "=", "c", ",", "1", ",", "-", "1">> >>]
MissingFieldFile ==
    [exists |-> TRUE,
     lines  |-> << <<"1", "a", "1">>,
                   <<"a", "1", "a", "/", "b", "=", "c", ",", "1">> >>]
GoodFiles == {PlainFile, AlternativeFile, EdgeFile}
BadFiles == {MissingFile, BadIndexFile, BadCutFile, MissingFieldFile}
Files == GoodFiles \cup BadFiles

WordChars == {"a", "A"}
RECURSIVE SeqsUpTo(_, _)
SeqsUpTo(S, n) ==
    IF n = 0 THEN {<<>>}
    ELSE LET shorter == SeqsUpTo(S, n - 1)
         IN  shorter \cup {Append(w, c) : w \in shorter, c \in S}
Words == SeqsUpTo(WordChars, MaxWordLen)
Margins == 1..DefaultMargin
Widths == 0..MaxWidth
Hyphens == {<<"-">>, <<"a">>}

\* ------------------------------------------------------------------ state
VARIABLES
    file,             \* the dictionary file the Builder names
    overflow_checks,  \* the build: TRUE with overflow checks, FALSE without
    hd,               \* HD_CACHE[filename]: None, or Some(HyphDict)
    pyphen,           \* the Pyphen in use: None, or Some([left, right])
    iter,             \* the live Iter: None, or Some([iter, word, is_upper])
    visited,          \* the positions the live Iter has yielded, in order
    ret,              \* the call that has just ended: None, or Some(record)
    writer            \* while the cache of hd has one entry, Some(Pyphen) whose
                      \* call wrote it; else None (history, not program state)

vars == <<file, overflow_checks, hd, pyphen, iter, visited, ret, writer>>

Init ==
    /\ file \in Files
    /\ overflow_checks \in BOOLEAN
    /\ hd = None
    /\ pyphen = None
    /\ iter = None
    /\ visited = <<>>
    /\ ret = None
    /\ writer = None

\* a record of ret: op is the call, ok is FALSE when the call panicked, and the
\* other fields are its arguments and what it returned
\*
\* the thread is between two calls: the last result has been taken, and no
\* panic has ended the thread
Idle == ret = None
Built == pyphen # None /\ hd # None
Panicked == ret # None /\ ~ret[1].ok

\* writer after a call through the Pyphen in use that left the dictionary
\* as after
WriterAfter(after) ==
    IF DOMAIN after.cache = DOMAIN hd[1].cache THEN writer
    ELSE IF Cardinality(DOMAIN after.cache) = 1 THEN pyphen
    ELSE None

\* Builder::left(l).right(r).cache(cache).build()
Build(l, r, cache) ==
    /\ Idle /\ iter = None
    /\ \E new \in {IF ~cache \/ hd = None THEN HyphDict_new(file) ELSE hd} :
           IF new = None
           THEN /\ ret' = Some([op |-> "build", ok |-> FALSE, result |-> "none"])
                /\ UNCHANGED <<hd, pyphen, writer>>
           ELSE /\ hd' = new
                /\ writer' = IF DOMAIN new[1].cache = {} THEN None ELSE writer
                /\ pyphen' = Some([left |-> l, right |-> r])
                /\ ret' = Some([op |-> "build", ok |-> TRUE, result |-> "Ok"])
    /\ UNCHANGED <<file, overflow_checks, iter, visited>>

\* dic.positions(word)
Positions(word) ==
    /\ Idle /\ Built /\ iter = None
    /\ \E r \in {Pyphen_positions(pyphen[1], hd[1], word, overflow_checks)} :
           /\ ret' = Some([op |-> "positions", ok |-> r.ok, word |-> word,
                           value |-> r.value, points |-> r.points,
                           cached |-> to_lowercase(word) \in DOMAIN hd[1].cache])
           /\ hd' = Some(r.hd)
           /\ writer' = WriterAfter(r.hd)
    /\ UNCHANGED <<file, overflow_checks, pyphen, iter, visited>>

\* dic.iterate(word)
Iterate(word) ==
    /\ Idle /\ Built /\ iter = None
    /\ \E r \in {Pyphen_iterate(pyphen[1], hd[1], word, overflow_checks)} :
           /\ ret' = Some([op |-> "iterate", ok |-> r.ok, word |-> word])
           /\ iter' = IF r.ok THEN Some(r.iter) ELSE None
           /\ hd' = Some(r.hd)
           /\ writer' = WriterAfter(r.hd)
    /\ visited' = <<>>
    /\ UNCHANGED <<file, overflow_checks, pyphen>>

\* iter.next()
IterNext ==
    /\ Idle /\ iter # None
    /\ \E r \in {Iter_next(iter[1], overflow_checks)} :
           /\ ret' = Some([op |-> "next", ok |-> r.ok, word |-> iter[1].word,
                           position |-> IF iter[1].iter = <<>> THEN None
                                        ELSE Some(iter[1].iter[Len(iter[1].iter)]),
                           item |-> r.item])
           /\ iter' = Some(r.iter)
           /\ visited' = IF iter[1].iter = <<>> THEN visited
                         ELSE Append(visited, iter[1].iter[Len(iter[1].iter)])
    /\ UNCHANGED <<file, overflow_checks, hd, pyphen, writer>>

\* the Iter goes out of scope
IterDrop ==
    /\ Idle /\ iter # None
    /\ iter' = None
    /\ visited' = <<>>
    /\ UNCHANGED <<file, overflow_checks, hd, pyphen, ret, writer>>

\* dic.wrap_with(word, width, hyphen)
WrapWith(word, width, hyphen) ==
    /\ Idle /\ Built /\ iter = None
    /\ \E r \in {Pyphen_wrap_with(pyphen[1], hd[1], word, width, hyphen,
                                   overflow_checks)} :
           /\ ret' = Some([op |-> "wrap_with", ok |-> r.ok, word |-> word,
                           width |-> width, hyphen |-> hyphen, value |-> r.value])
           /\ hd' = Some(r.hd)
           /\ writer' = WriterAfter(r.hd)
    /\ UNCHANGED <<file, overflow_checks, pyphen, iter, visited>>

\* dic.inserted_with(word, hyphen)
InsertedWith(word, hyphen) ==
    /\ Idle /\ Built /\ iter = None
    /\ \E r \in {Pyphen_inserted_with(pyphen[1], hd[1], word, hyphen,
                                       overflow_checks)} :
           /\ ret' = Some([op |-> "inserted_with", ok |-> r.ok, word |-> word,
                           hyphen |-> hyphen, value |-> r.value])
           /\ hd' = Some(r.hd)
           /\ writer' = WriterAfter(r.hd)
    /\ UNCHANGED <<file, overflow_checks, pyphen, iter, visited>>

\* the caller takes the result of the call and goes on; after a panic the
\* thread is gone and nothing follows
Continue ==
    /\ ret # None /\ ret[1].ok
    /\ ret' = None
    /\ UNCHANGED <<file, overflow_checks, hd, pyphen, iter, visited, writer>>

Next ==
    \/ \E l \in Margins, r \in Margins, cache \in BOOLEAN : Build(l, r, cache)
    \/ \E word \in Words : Positions(word)
    \/ \E word \in Words : Iterate(word)
    \/ IterNext
    \/ IterDrop
    \/ \E word \in Words, width \in Widths, hyphen \in Hyphens :
           WrapWith(word, width, hyphen)
    \/ \E word \in Words, hyphen \in Hyphens : InsertedWith(word, hyphen)
    \/ Continue

Spec == Init /\ [][Next]_vars

\* ------------------------------------------------------------------ properties
\* the call that has just ended is op; it has returned (it did not panic)
Called(op) == ret # None /\ ret[1].op = op
Returned(op) == Called(op) /\ ret[1].ok

Offsets(points) == [k \in 1..Len(points) |-> points[k].value]
Reverse(s) == [k \in 1..Len(s) |-> s[Len(s) + 1 - k]]
StrictlyAscending(s) == \A k \in 1..(Len(s) - 1) : s[k] < s[k + 1]
StrictlyDescending(s) == \A k \in 1..(Len(s) - 1) : s[k] > s[k + 1]
NoRule(points) == \A k \in 1..Len(points) : points[k].data = None

\* the dictionary as HyphDict::new leaves it, with an empty cache
FreshDict == HyphDict_new(file)[1]

\* C1: every offset p that positions(w) returns satisfies
\* left <= p <= len(w) - right, and the returned list is exactly the points of
\* the dictionary scan that lie in that range: none outside it is returned,
\* none inside it is dropped.
C1_BoundaryFilter ==
    Returned("positions") =>
        ret[1].value =
            SelectSeq(ret[1].points,
                LAMBDA p : /\ pyphen[1].left <= p.value
                           /\ p.value <= Len(ret[1].word) - pyphen[1].right)

\* C2: the offsets positions returns are strictly ascending; a live iterator
\* has yielded the offsets of positions(word) from the largest down, in
\* strictly descending order, what it has yet to yield and what it has yielded
\* being together exactly positions(word); when next() returns None nothing
\* is left.
C2_Ordering ==
    /\ Returned("positions") => StrictlyAscending(Offsets(ret[1].value))
    /\ iter # None =>
           /\ StrictlyDescending(Offsets(visited))
           /\ StrictlyAscending(Offsets(iter[1].iter \o Reverse(visited)))
           /\ iter[1].iter \o Reverse(visited) =
                  Pyphen_positions(pyphen[1], hd[1], iter[1].word,
                                   overflow_checks).value
    /\ (Returned("next") /\ ret[1].item = None) => iter[1].iter = <<>>

\* C3, its state part: every entry of the cache is what a scan of its key by
\* the dictionary with an empty cache gives, and what HyphDict::positions has
\* just returned for a word is what that scan gives for the lower-cased word.
C3_CacheIsScan ==
    hd # None =>
        /\ \A w \in DOMAIN hd[1].cache :
               Scan(FreshDict, w, overflow_checks) =
                   [ok |-> TRUE, points |-> hd[1].cache[w]]
        /\ Returned("positions") =>
               Scan(FreshDict, to_lowercase(ret[1].word), overflow_checks) =
                   [ok |-> TRUE, points |-> ret[1].points]

\* C3, its step part: a call on the dictionary leaves every entry of the
\* cache in place and unchanged (build() with cache(false) compiles a new
\* dictionary, which is another dictionary and not a later call on this one).
C3_CacheKept ==
    (hd # None /\ hd' # None /\ ~Called("build")') =>
        \A w \in DOMAIN hd[1].cache :
            w \in DOMAIN hd'[1].cache /\ hd'[1].cache[w] = hd[1].cache[w]

\* C3: after any sequence of positions calls, positions(w) returns the same
\* sequence (offsets and rule data) as a fresh uncached scan of w; a cache
\* entry, once written, equals the scan of its word and is never changed or
\* removed by later calls.
C3_CacheTransparent == [](C3_CacheIsScan) /\ [][C3_CacheKept]_vars

\* a positions call for a word with breakpoints has been served from the
\* cache, which holds other words too
C3_Witness ==
    /\ Returned("positions")
    /\ ret[1].cached
    /\ ret[1].points # <<>>
    /\ Cardinality(DOMAIN hd[1].cache) >= 2

\* h occurs in s at offset i
OccursAt(h, s, i) == i + Len(h) <= Len(s) /\ Slice(s, i, i + Len(h)) = h
OccurrencesOf(h, s) == {i \in 0..Len(s) : OccursAt(h, s, i)}

\* s without the occurrences of h, found left to right
RECURSIVE RemoveAll(_, _)
RemoveAll(s, h) ==
    IF s = <<>> THEN <<>>
    ELSE IF OccursAt(h, s, 0) THEN RemoveAll(Slice(s, Len(h), Len(s)), h)
    ELSE <<s[1]>> \o RemoveAll(Tail(s), h)

\* the round trip of C4 for the word, the hyphen, the accepted breakpoints p
\* and the string inserted_with returned
RoundTrip(word, hyphen, p, inserted) ==
    (NoRule(p) /\ OccurrencesOf(hyphen, word) = {}) =>
        /\ RemoveAll(inserted, hyphen) = word
        /\ OccurrencesOf(hyphen, inserted) =
               {p[k].value + (k - 1) * Len(hyphen) : k \in 1..Len(p)}

ResolvedOffset(p, index, len) ==
    IF p + index >= 0 THEN p + index ELSE len + (p + index)

\* the candidate of C5 for the word, the split text x, r and cut
RuleCandidate(word, x, r, cut) ==
    <<Slice(word, 0, r) \o x[1], x[2] \o Slice(word, r + cut, Len(word))>>

\* the text of the rule as C5 has it: upper-cased exactly when the whole word
\* equals its upper-cased form
RuleText(word, text) ==
    IF word = to_uppercase(word) THEN to_uppercase(text) ELSE text

\* C5 for one position with a rule (text, index, cut), where r and r + cut
\* lie in the word
RuleYields(r, word, position) ==
    (/\ 0 <= ResolvedOffset(position.value, position.data[2], Len(word))
     /\ ResolvedOffset(position.value, position.data[2], Len(word))
            + position.data[3] <= Len(word)) =>
        /\ r.ok
        /\ r.item =
               Some(RuleCandidate(word,
                        Split(RuleText(word, position.data[1]), "="),
                        ResolvedOffset(position.value, position.data[2], Len(word)),
                        position.data[3]))

\* C5: for a breakpoint at offset p with rule (text, index, cut), text being
\* left_repl=right_repl, next() yields (word[..r] + left_repl,
\* right_repl + word[r+cut..]) with r = p + index when that is not negative
\* and r = len(word) + (p + index) when it is; the text is upper-cased exactly
\* when the word equals its upper-cased form.
C5_RuleCandidate ==
    (/\ Called("next")
     /\ ret[1].position # None
     /\ ret[1].position[1].data # None) =>
        RuleYields(ret[1], ret[1].word, ret[1].position[1])

\* the candidates next() yields from the iterator it on, up to the end or a
\* panic
RECURSIVE Candidates(_, _)
Candidates(it, checks) ==
    IF ~Iter_next(it, checks).ok \/ Iter_next(it, checks).item = None
    THEN <<>>
    ELSE <<Iter_next(it, checks).item[1]>>
             \o Candidates(Iter_next(it, checks).iter, checks)

\* every position of the iterator it yields a candidate
RECURSIVE AllYield(_, _)
AllYield(it, checks) ==
    /\ Iter_next(it, checks).ok
    /\ \/ Iter_next(it, checks).item = None
       \/ AllYield(Iter_next(it, checks).iter, checks)

\* the first of the candidates whose prefix and the hyphen fit in width, with
\* the hyphen appended, or None
RECURSIVE FirstFit(_, _, _)
FirstFit(candidates, width, hyphen) ==
    IF candidates = <<>> THEN None
    ELSE IF Len(candidates[1][1]) + Len(hyphen) <= width
    THEN Some(<<candidates[1][1] \o hyphen, candidates[1][2]>>)
    ELSE FirstFit(Tail(candidates), width, hyphen)

\* C6: wrap_with(word, width, hyphen) returns the first candidate
\* (prefix, suffix) in the order of iterate for which
\* len(prefix) + len(hyphen) <= width, as (prefix + hyphen, suffix), and None
\* when no candidate fits or the word has no breakpoints.
C6_WrapFirstFit ==
    Returned("wrap_with") =>
        ret[1].value =
            FirstFit(Candidates(Pyphen_iterate(pyphen[1], hd[1], ret[1].word,
                                               overflow_checks).iter,
                                overflow_checks),
                     ret[1].width, ret[1].hyphen)

\* C7: for a width smaller than the shortest candidate prefix plus
\* len(hyphen), and so for every width smaller than len(hyphen), wrap_with
\* returns None: not a candidate, and not a failure. (The words taken are
\* those iterate goes through without a failure of its own.)
C7_NarrowWidthIsNone ==
    (/\ Called("wrap_with")
     /\ Pyphen_iterate(pyphen[1], hd[1], ret[1].word, overflow_checks).ok
     /\ AllYield(Pyphen_iterate(pyphen[1], hd[1], ret[1].word,
                                overflow_checks).iter, overflow_checks)
     /\ FirstFit(Candidates(Pyphen_iterate(pyphen[1], hd[1], ret[1].word,
                                           overflow_checks).iter,
                            overflow_checks),
                 ret[1].width, ret[1].hyphen) = None) =>
        ret[1].ok /\ ret[1].value = None

\* the word is shorter than left + right
ShortWord(word) == Len(word) < pyphen[1].left + pyphen[1].right

\* C8: for a word with len(w) < left + right, positions completes and returns
\* the empty list, iterate yields nothing and inserted_with returns the word
\* unchanged: no panic and no wrap-around.
C8_ShortWordEmpty ==
    /\ (Called("positions") /\ ShortWord(ret[1].word)) =>
           ret[1].ok /\ ret[1].value = <<>>
    /\ (Called("iterate") /\ ShortWord(ret[1].word)) =>
           ret[1].ok /\ iter # None /\ iter[1].iter = <<>>
    /\ (Called("inserted_with") /\ ShortWord(ret[1].word)) =>
           ret[1].ok /\ ret[1].value = ret[1].word

\* C9: the offsets positions(w) returns are those positions(lowercase(w))
\* returns; the cache is keyed by the lower-cased word alone, so that the
\* casings of a word share one entry.
C9_CaseInsensitive ==
    /\ hd # None => \A w \in DOMAIN hd[1].cache : w = to_lowercase(w)
    /\ Returned("positions") =>
           /\ to_lowercase(ret[1].word) \in DOMAIN hd[1].cache
           /\ Offsets(ret[1].value) =
                  Offsets(Pyphen_positions(pyphen[1], FreshDict,
                                           to_lowercase(ret[1].word),
                                           overflow_checks).value)

\* positions has returned breakpoints for a word that is not in lower case,
\* out of the cache entry a call in another casing wrote
C9_Witness ==
    /\ Returned("positions")
    /\ ret[1].cached
    /\ ret[1].word # to_lowercase(ret[1].word)
    /\ ret[1].word # to_uppercase(ret[1].word)
    /\ ret[1].value # <<>>

\* C11: Hyphenators with different (left, right) share one dictionary (build()
\* with the cache kept gives another Pyphen on the dictionary of the earlier
\* ones).  Whatever calls were made before, through whichever of them,
\* positions(w) through one of them ends as it does on the dictionary as
\* compiled, with an empty cache: the same outcome and the same breakpoints,
\* which depend on the dictionary, w and its own (left, right) alone.
C11_SharedDictionary ==
    Called("positions") =>
        /\ ret[1].ok =
               Pyphen_positions(pyphen[1], FreshDict, ret[1].word,
                                overflow_checks).ok
        /\ ret[1].value =
               Pyphen_positions(pyphen[1], FreshDict, ret[1].word,
                                overflow_checks).value

\* positions through one Pyphen has been served from the cache entry that a
\* call through a Pyphen with another (left, right) wrote, for a word of
\* left + right characters or more in a build with overflow checks, and has
\* filtered some of its points out and kept others
C11_Witness ==
    /\ Returned("positions")
    /\ ret[1].cached
    /\ writer # None
    /\ writer # pyphen
    /\ overflow_checks
    /\ Len(ret[1].word) >= pyphen[1].left + pyphen[1].right
    /\ ret[1].value # <<>>
    /\ ret[1].value # ret[1].points

\* C10: compiling a dictionary whose file cannot be opened, or that has a
\* line with a malformed alternative (index, cut, or a missing field), ends
\* in an error returned to the caller, and in no dictionary.
C10_CompileError ==
    (Called("build") /\ file \in BadFiles) =>
        ret[1].ok /\ ret[1].result = "Err" /\ hd = None

\* the word with a dot at each end, in lower case, as the scan takes it
Padded(word) == <<".">> \o to_lowercase(word) \o <<".">>

\* the start indices i at which key occurs in padded and reaches slot k: key
\* at i gives its m-th stored weight to slot i + start_offset + m - 1
StartsReaching(entry, key, padded, k) ==
    {i \in 0..(Len(padded) - Len(key)) :
        /\ Slice(padded, i, i + Len(key)) = key
        /\ k - i - entry.offset + 1 \in 1..Len(entry.values)}

\* the weights that the occurrences of the keys of the dictionary in padded
\* assign to slot k
AssignedWeights(dict, padded, k) ==
    UNION {{dict.patterns[key].values[k - i - dict.patterns[key].offset + 1].value :
               i \in StartsReaching(dict.patterns[key], key, padded, k)} :
           key \in DOMAIN dict.patterns}

\* the weight of slot k after an exhaustive scan
ExhaustiveWeight(dict, padded, k) == SetMax(AssignedWeights(dict, padded, k) \cup {0})

\* C12: the scan is exhaustive: every key of the dictionary that occurs in the
\* dot-padded word, those as long as maxlen too, is overlaid, so that after
\* the scan the weight of each slot k is the maximum of 0 and the weights the
\* occurring keys assign to k.
C12_ExhaustiveScan ==
    Called("positions") =>
        /\ ScanPointed(FreshDict, Padded(ret[1].word)).ok
        /\ \A k \in 0..Len(Padded(ret[1].word)) :
               ScanPointed(FreshDict, Padded(ret[1].word)).references[k + 1].value
                   = ExhaustiveWeight(FreshDict, Padded(ret[1].word), k)

\* the substrings [i, j) of a padded word of length len in the order of the
\* scan: increasing start index i, then increasing end index j
RECURSIVE ScanOrder(_, _, _, _)
ScanOrder(len, maxlen, i, j) ==
    IF i >= len - 1 THEN <<>>
    ELSE IF j >= Min(i + maxlen, len + 1) THEN ScanOrder(len, maxlen, i + 1, i + 2)
    ELSE << <<i, j>> >> \o ScanOrder(len, maxlen, i, j + 1)

\* the slots after the first n substrings of the scan have been looked up
RECURSIVE SlotsAfter(_, _, _, _)
SlotsAfter(dict, padded, order, n) ==
    IF n = 0 THEN [k \in 1..(Len(padded) + 1) |-> DataInt_new(0, None)]
    ELSE Lookup(dict, padded, SlotsAfter(dict, padded, order, n - 1),
                order[n][1], order[n][2]).references

\* what the substring [i, j) of padded assigns to slot k: None, or Some(value)
AssignedTo(dict, padded, i, j, k) ==
    IF /\ Slice(padded, i, j) \in DOMAIN dict.patterns
       /\ k - i - dict.patterns[Slice(padded, i, j)].offset + 1
              \in 1..Len(dict.patterns[Slice(padded, i, j)].values)
    THEN Some(dict.patterns[Slice(padded, i, j)].values[
                  k - i - dict.patterns[Slice(padded, i, j)].offset + 1])
    ELSE None

\* the substrings of the scan, by their place in its order, that assign a
\* value of the given weight to slot k
Reaching(dict, padded, order, k, weight) ==
    {n \in 1..Len(order) :
        /\ AssignedTo(dict, padded, order[n][1], order[n][2], k) # None
        /\ AssignedTo(dict, padded, order[n][1], order[n][2], k)[1].value = weight}

\* the slot k that ends as final is zero and untouched, or holds the value of
\* the first substring of the scan that assigns its final weight to it
FirstKept(dict, padded, order, k, final) ==
    IF final.value = 0 THEN final = DataInt_new(0, None)
    ELSE /\ Reaching(dict, padded, order, k, final.value) # {}
         /\ \E n \in Reaching(dict, padded, order, k, final.value) :
                /\ \A m \in Reaching(dict, padded, order, k, final.value) : n <= m
                /\ final = AssignedTo(dict, padded, order[n][1], order[n][2], k)[1]

\* the tie-break of C13 over the scan of padded in the given order
TieBreak(dict, padded, order) ==
    /\ SlotsAfter(dict, padded, order, Len(order)) =
           ScanPointed(dict, padded).references
    /\ \A n \in 1..Len(order) :
           LET before == SlotsAfter(dict, padded, order, n - 1)
               after  == SlotsAfter(dict, padded, order, n)
           IN  \A k \in 1..Len(before) :
                   after[k] = before[k] \/ after[k].value > before[k].value
    /\ \A k \in 0..Len(padded) :
           FirstKept(dict, padded, order, k,
                     ScanPointed(dict, padded).references[k + 1])

\* C13: during the scan a slot is overwritten only by a strictly greater
\* weight, so its weight never decreases; when two matching patterns assign
\* the same weight to a slot, the slot keeps the value, weight and rule, of the
\* one visited first (increasing start index, then increasing end index): a
\* slot ends with the value of the pattern that first reached its final weight.
C13_StrictTieBreak ==
    (Called("positions") /\ ~ret[1].cached) =>
        TieBreak(FreshDict, Padded(ret[1].word),
                 ScanOrder(Len(Padded(ret[1].word)), FreshDict.maxlen, 0, 1))

\* two substrings of the scan assign the final weight of slot k with different
\* rules
TiedAt(dict, padded, order, k, final) ==
    /\ final.value # 0
    /\ \E n, m \in Reaching(dict, padded, order, k, final.value) :
           AssignedTo(dict, padded, order[n][1], order[n][2], k)
               # AssignedTo(dict, padded, order[m][1], order[m][2], k)

\* the scan of a word has run, and two patterns with different rules assign
\* the same, final, weight to one of its slots
C13_Witness ==
    /\ Returned("positions")
    /\ ~ret[1].cached
    /\ \E k \in 0..Len(Padded(ret[1].word)) :
           TiedAt(FreshDict, Padded(ret[1].word),
                  ScanOrder(Len(Padded(ret[1].word)), FreshDict.maxlen, 0, 1),
                  k, ScanPointed(FreshDict, Padded(ret[1].word)).references[k + 1])

\* the base pattern of a line of the dictionary text: the line with its ^^hh
\* escapes replaced, up to its first '/'
LineBase(line) ==
    SubSeq(PARSE_HEX_replace_all(line), 1,
           FindChar(PARSE_HEX_replace_all(line), "/"))

\* the full weight sequence of a line: the digit of each slot of its base
\* pattern, 0 where the slot has none
LineWeights(line) ==
    [k \in 1..Len(PARSE_captures_iter(LineBase(line), TRUE)) |->
        CaptureDigit(PARSE_captures_iter(LineBase(line), TRUE)[k])]

NonDigit(c) == c \notin Digits

\* the non-digit characters of the base pattern of a line, concatenated
LineKey(line) == SelectSeq(LineBase(line), NonDigit)

RECURSIVE DropZeros(_)
DropZeros(weights) ==
    IF weights = <<>> \/ weights[1] # 0 THEN weights ELSE DropZeros(Tail(weights))

LeadingZeros(weights) == Len(weights) - Len(DropZeros(weights))
Trimmed(weights) == Reverse(DropZeros(Reverse(DropZeros(weights))))

\* the lines that are patterns
PatternLines(lines) == {n \in 1..Len(lines) : ~IsComment(lines[n])}

\* the pattern lines with a weight that is not zero
WeightedLines(lines) ==
    {n \in PatternLines(lines) :
        \E k \in 1..Len(LineWeights(lines[n])) : LineWeights(lines[n])[k] # 0}

\* the entry under key is what the last weighted line with that key leaves
EntryOfLine(entry, key, lines) ==
    \E n \in WeightedLines(lines) :
        /\ LineKey(lines[n]) = key
        /\ \A m \in WeightedLines(lines) : LineKey(lines[m]) = key => m <= n
        /\ entry.offset = LeadingZeros(LineWeights(lines[n]))
        /\ Offsets(entry.values) = Trimmed(LineWeights(lines[n]))

WellStored(patterns, lines) ==
    /\ DOMAIN patterns = {LineKey(lines[n]) : n \in WeightedLines(lines)}
    /\ \A key \in DOMAIN patterns :
           /\ patterns[key].values # <<>>
           /\ patterns[key].values[1].value # 0
           /\ patterns[key].values[Len(patterns[key].values)].value # 0
           /\ EntryOfLine(patterns[key], key, lines)

\* C14: after a dictionary text is compiled, every stored entry
\* (start_offset, weights) has a non-empty weight sequence whose first and last
\* weights are not zero, its start_offset is the number of leading zero weights
\* trimmed from the full weight sequence of its pattern, its key is the
\* concatenation of the non-digit characters of the pattern, and a pattern
\* whose weights are all zero has no entry.
C14_StoredEntries ==
    Returned("build") => WellStored(hd[1].patterns, file.lines)

\* a text has been compiled that has a pattern of zeros only, which left no
\* entry, and a pattern with zeros trimmed at both of its ends
C14_Witness ==
    /\ Returned("build")
    /\ \E n \in PatternLines(file.lines) \ WeightedLines(file.lines) :
           LineKey(file.lines[n]) \notin DOMAIN hd[1].patterns
    /\ \E n \in WeightedLines(file.lines) :
           /\ LineKey(file.lines[n]) \in DOMAIN hd[1].patterns
           /\ hd[1].patterns[LineKey(file.lines[n])].offset > 0
           /\ Len(hd[1].patterns[LineKey(file.lines[n])].values)
                  < Len(LineWeights(file.lines[n]))
                        - hd[1].patterns[LineKey(file.lines[n])].offset

\* the line has alternative syntax: a '/' after its base pattern
HasAlternative(line) ==
    \E k \in 1..Len(PARSE_HEX_replace_all(line)) : PARSE_HEX_replace_all(line)[k] = "/"

\* the fields change, index, cut of the alternative of a line
AlternativeFields(line) ==
    Split(SubSeq(PARSE_HEX_replace_all(line),
                 FindChar(PARSE_HEX_replace_all(line), "/") + 2,
                 Len(PARSE_HEX_replace_all(line))), ",")

\* index0: the index of the alternative, plus one when the base pattern of the
\* line starts with '.'
Index0(line) ==
    ParseIsize(AlternativeFields(line)[2])[1]
        + (IF LineBase(line) # <<>> /\ LineBase(line)[1] = "." THEN 1 ELSE 0)

\* the value C15 gives the N-th digit slot of a line
SlotValue(line, N) ==
    IF HasAlternative(line) /\ LineWeights(line)[N] % 2 = 1
    THEN DataInt_new(LineWeights(line)[N],
                     <<AlternativeFields(line)[1], Index0(line) - N,
                       ParseUsize(AlternativeFields(line)[3])[1]>>)
    ELSE DataInt_new(LineWeights(line)[N], None)

\* the values read from a line, slot by slot, are those of C15
SlotsOfLine(line) ==
    CaptureValues(PARSE_captures_iter(LineBase(line), TRUE),
                  IF HasAlternative(line)
                  THEN AlternativeParser_new(LineBase(line),
                           SubSeq(PARSE_HEX_replace_all(line),
                                  FindChar(PARSE_HEX_replace_all(line), "/") + 2,
                                  Len(PARSE_HEX_replace_all(line))))
                  ELSE None)
        = [N \in 1..Len(LineWeights(line)) |-> SlotValue(line, N)]

\* the values of the entry under key are those of the slots of the last
\* weighted line with that key
RulesOfLine(entry, key, lines) ==
    \E n \in WeightedLines(lines) :
        /\ LineKey(lines[n]) = key
        /\ \A m \in WeightedLines(lines) : LineKey(lines[m]) = key => m <= n
        /\ \A k \in 1..Len(entry.values) :
               entry.values[k] = SlotValue(lines[n], entry.offset + k)

\* C15: the N-th digit slot of a line with the alternative (change, index,
\* cut), N from 1 and an absent digit counting as 0, has a rule if and only if
\* its digit is odd, and the rule is (change, index0 - N, cut), where index0 is
\* index + 1 if the base pattern starts with '.' and index otherwise: the
\* countdown goes down by one per slot, odd or even; the values of a line
\* without alternative syntax carry no rule.
C15_AlternativeRules ==
    Returned("build") =>
        /\ \A n \in PatternLines(file.lines) : SlotsOfLine(file.lines[n])
        /\ \A key \in DOMAIN hd[1].patterns :
               RulesOfLine(hd[1].patterns[key], key, file.lines)

\* a text has been compiled with a line that has an alternative, starts with
\* '.', and has an odd digit after slots without one, and with a weighted line
\* that has no alternative
C15_Witness ==
    /\ Returned("build")
    /\ \E n \in WeightedLines(file.lines) : ~HasAlternative(file.lines[n])
    /\ \E n \in WeightedLines(file.lines) :
           /\ HasAlternative(file.lines[n])
           /\ LineBase(file.lines[n])[1] = "."
           /\ LineKey(file.lines[n]) \in DOMAIN hd[1].patterns
           /\ hd[1].patterns[LineKey(file.lines[n])].offset >= 2
           /\ hd[1].patterns[LineKey(file.lines[n])].values[1].data # None
           /\ hd[1].patterns[LineKey(file.lines[n])].values[1].data[2]
                  = Index0(file.lines[n])
                        - hd[1].patterns[LineKey(file.lines[n])].offset - 1

\* every substring of the scan that is a key has its weights inside the
\* weight vector of the padded word
HitsInside(dict, padded, order) ==
    \A n \in 1..Len(order) :
        Slice(padded, order[n][1], order[n][2]) \in DOMAIN dict.patterns =>
            order[n][1] + dict.patterns[Slice(padded, order[n][1], order[n][2])].offset
                + Len(dict.patterns[Slice(padded, order[n][1], order[n][2])].values)
                    <= Len(padded) + 1

\* the scan and the collection of HyphDict::positions end without a panic, and
\* every offset they give is in 0..len(w)+1
OffsetsInside(scanned, word) ==
    /\ scanned.ok
    /\ \A k \in 1..Len(scanned.points) :
           scanned.points[k].value \in 0..(Len(word) + 1)

\* C16: for every compiled dictionary and every word w, the scan stays inside
\* the weight vector of length len(padded) + 1 (for every hit,
\* i + start_offset + len(weights) <= len(padded) + 1), and every offset that
\* HyphDict::positions(w) returns is in 0..len(w)+1: the 'index - 1' is never
\* applied to slot 0.
C16_InBounds ==
    Called("positions") =>
        /\ HitsInside(FreshDict, Padded(ret[1].word),
                      ScanOrder(Len(Padded(ret[1].word)), FreshDict.maxlen, 0, 1))
        /\ OffsetsInside(Scan(FreshDict, to_lowercase(ret[1].word), overflow_checks),
                         ret[1].word)

====
